---- MODULE Spec2Model ----
(***************************************************************************)
(* Model of the multimodal RAG ingestion pipeline:                         *)
(*   - ImageCache (core/image_handler.py): disk-backed image store with an *)
(*     in-memory registry (a Python dict, insertion ordered) and a size    *)
(*     ledger current_memory;                                              *)
(*   - process_single_pdf / load_and_index_documents (core/rag_engine.py): *)
(*     PDF workers in a thread pool sharing one ImageCache.                *)
(***************************************************************************)
EXTENDS Integers, Sequences, FiniteSets, TLC

\* ------------------------------------------------------------------ bounds

\* max_memory_bytes of the cache, scaled down (the code: max_memory_mb * 2^20)
MaxMemoryBytes == 2
\* cap on the ledger so that the always-incrementing counter stays finite
MemCap == 4
\* number of distinct images (pixel contents) that can be handed to add_image
NumImages == 3
\* largest pool size tried (max_workers, a slider from 1 to 5 in the app)
MaxWorkers == 2
\* largest max_images tried (a slider from 1 to 10 in the app)
MaxImagesSetting == 2
\* largest chat_history_length tried (a slider from 1 to 20 in the app)
MaxHistory == 1
\* the markers the model's answers use: [画像1]..[画像NumMarkers]
NumMarkers == 2
\* the longest answer handed to render_response_with_images on its own
MaxAnswerParts == 3

\* ---------------------------------------------------------------- fixtures

\* the PDF files of the ingested directory and their page counts
PdfFiles == {"a.pdf", "b.pdf"}
NumPagesOf(f) == IF f = "a.pdf" THEN 2 ELSE 1
\* the text files of the ingested directory
TextFiles == {"n.txt"}
\* the directories load_and_index_documents is called on: an empty one, and
\* one that holds the PDF and the text files
Directories == {{}, PdfFiles \cup TextFiles}
\* the questions typed into the chat input in one session, in this order
Questions == <<"q1", "q2">>

NoFile == [kind |-> "none", image |-> 0, size |-> 0]
None == [image |-> 0, metadata |-> <<>>]

Images == 1..NumImages

\* ------------------------------------------------------------ pure helpers

\* size in bytes of the PNG file written for an image (image.save + stat)
PngSize(img) == img
\* image.save(cache_path, format="PNG"): the file that ends up on disk
PngEncode(img) == [kind |-> "png", image |-> img, size |-> PngSize(img)]
\* Image.open(cache_path): the image read back; only defined on PNG files
PngDecode(file) == file.image

\* f"{file_name}_p{page}_t{type}" + f"_i{index}" + f"_r{rect_index}"
\* (index = 0 / rect_index = 0: the key is absent from img_data)
ImageId(file_name, page, type, index, rect_index) ==
    <<file_name, page, type, index, rect_index>>

\* images extract_images_high_quality yields when no page fails
FullPageImages(f) ==
    [p \in 1..NumPagesOf(f) |-> [page |-> p, type |-> "full_page", file_name |-> f,
                                 index |-> 0, rect_index |-> 0]]

\* the ids process_single_pdf derives for the full-page images of the files fs
ImageIdsOf(fs) ==
    UNION {{ImageId(f, p, "full_page", 0, 0) : p \in 1..NumPagesOf(f)} : f \in fs}

\* the ids the sequential cache scenarios call the cache with
CacheIds == ImageIdsOf({"a.pdf"})

\* metadata process_single_pdf attaches to an image
ImageMetadata(id) == [file_name |-> id[1], page |-> id[2], type |-> id[3]]

VARIABLES
    registry,        \* ImageCache.registry: sequence of entries in dict order
    files,           \* the cache directory: _get_cache_path(id) -> file
    current_memory,  \* ImageCache.current_memory
    last,            \* the last cache call: arguments, case and return value
    all_files,       \* load_and_index_documents: the files data_path.glob("*.*") lists
    max_workers,     \* load_and_index_documents: size of the thread pool
    mpc,             \* load_and_index_documents: position of the calling thread
    workers,         \* process_single_pdf: per PDF file, position and locals
    results,         \* the per-file result records, in the order they arrived
    all_documents,   \* load_and_index_documents: all_documents
    indexed,         \* what VectorStoreIndex.from_documents was called with
    pdf,             \* the PDF handed to extract_text_from_pdf and what its readers do
    extracted,       \* what extract_text_from_pdf returned or raised
    documents,       \* process_single_pdf: the Documents built from the page map
    messages,        \* st.session_state.messages
    settings,        \* st.session_state: max_images, use_chat_history, chat_history_length
    exchange,        \* the last question: request sent, result returned, what was rendered
    rerun,           \* repeated ingestion: the method, the PDFs, and what each finished run left
    text_file        \* process_text_file: the file, what reading it does, and the result

cacheVars == <<registry, files, current_memory>>
ingestVars == <<all_files, max_workers, mpc, workers, results, all_documents, indexed>>
extractVars == <<pdf, extracted, documents>>
queryVars == <<messages, settings, exchange>>
rerunVars == <<rerun>>
textVars == <<text_file>>
vars == <<registry, files, current_memory, last,
          all_files, max_workers, mpc, workers, results, all_documents, indexed,
          pdf, extracted, documents, messages, settings, exchange, rerun, text_file>>

\* --------------------------------------------------------- registry (dict)

Keys(reg) == {reg[i].id : i \in 1..Len(reg)}
KeyList(reg) == [i \in 1..Len(reg) |-> reg[i].id]
IndexOf(reg, id) == CHOOSE i \in 1..Len(reg) : reg[i].id = id
Entry(reg, id) == reg[IndexOf(reg, id)]

\* registry[image_id] = entry: an existing key keeps its position in the dict
DictSet(reg, entry) ==
    IF entry.id \in Keys(reg)
    THEN [reg EXCEPT ![IndexOf(reg, entry.id)] = entry]
    ELSE Append(reg, entry)

\* del registry[image_id]
DictDel(reg, id) ==
    LET i == IndexOf(reg, id)
    IN  SubSeq(reg, 1, i - 1) \o SubSeq(reg, i + 1, Len(reg))

RECURSIVE SumSizes(_)
SumSizes(reg) ==
    IF reg = <<>> THEN 0 ELSE Head(reg).size + SumSizes(Tail(reg))

RECURSIVE SumFileSizes(_, _)
SumFileSizes(reg, fs) ==
    IF reg = <<>> THEN 0 ELSE fs[Head(reg).id].size + SumFileSizes(Tail(reg), fs)

\* ------------------------------------------------------- cache operations
\* A cache state is a record [registry, files, mem].

CacheState == [registry |-> registry, files |-> files, mem |-> current_memory]

\* _remove_image(image_id); unlinkFails: the ids whose unlink raises
RemoveImage(st, id, unlinkFails) ==
    IF id \notin Keys(st.registry) THEN st
    ELSE IF st.files[id] # NoFile /\ id \in unlinkFails
         THEN st   \* except Exception: logged, entry and ledger untouched
         ELSE [registry |-> DictDel(st.registry, id),
               files    |-> [st.files EXCEPT ![id] = NoFile],
               mem      |-> st.mem - Entry(st.registry, id).size]

RECURSIVE RemoveEach(_, _, _)
RemoveEach(st, ids, unlinkFails) ==
    IF ids = <<>> THEN st
    ELSE RemoveEach(RemoveImage(st, Head(ids), unlinkFails), Tail(ids), unlinkFails)

\* the ids _cleanup_old_images walks: list(registry.keys())[:len(registry) // 2]
CleanupVictims(reg) == SubSeq(KeyList(reg), 1, Len(reg) \div 2)

\* _cleanup_old_images()
CleanupOldImages(st, unlinkFails) ==
    RemoveEach(st, CleanupVictims(st.registry), unlinkFails)

\* the ledger after add_image counted the written file
LedgerAfterAdd(mem, reg, id, file_size) == mem + file_size

\* the memory-limit check of add_image
OverLimit(mem) == mem > MaxMemoryBytes

\* add_image(image_id, image, metadata) when save and stat succeed
AddImageOk(st, id, img, meta, unlinkFails) ==
    LET file == PngEncode(img)
        entry == [id |-> id, path |-> id, metadata |-> meta, size |-> file.size]
        st1 == [registry |-> DictSet(st.registry, entry),
                files    |-> [st.files EXCEPT ![id] = file],
                mem      |-> LedgerAfterAdd(st.mem, st.registry, id, file.size)]
    IN  IF OverLimit(st1.mem) THEN CleanupOldImages(st1, unlinkFails) ELSE st1

\* clear()
ClearCache(st, unlinkFails) ==
    [RemoveEach(st, KeyList(st.registry), unlinkFails) EXCEPT !.mem = 0]

\* get_image with the stale-entry branch missing its del registry[image_id]
GetImageKeepsStale(st, id, openFails) ==
    IF id \notin Keys(st.registry) \/ st.files[id] = NoFile \/ openFails
    THEN <<None, st.registry>>
    ELSE <<[image |-> PngDecode(st.files[id]),
            metadata |-> Entry(st.registry, id).metadata], st.registry>>

\* get_image(image_id): <<result, registry afterwards>>
\* openFails: Image.open raises (except Exception: return None)
GetImage(st, id, openFails) ==
    IF id \notin Keys(st.registry) THEN <<None, st.registry>>
    ELSE IF st.files[id] = NoFile THEN <<None, DictDel(st.registry, id)>>
    ELSE IF openFails THEN <<None, st.registry>>
    ELSE <<[image |-> PngDecode(st.files[id]),
            metadata |-> Entry(st.registry, id).metadata], st.registry>>

\* --------------------------------------------- the cache used sequentially
\* One action per public call of ImageCache, each the whole call.

NoCall == [op |-> "none", id |-> <<>>, case |-> "none", result |-> None]

Call(op, id, case, result) == [op |-> op, id |-> id, case |-> case, result |-> result]

\* a worker that has not been submitted to the pool
IdleWorker == [pc |-> "idle", page_texts |-> <<>>, images |-> <<>>, image_ids |-> <<>>,
               id |-> <<>>, size |-> 0, tmp |-> 0, victims |-> <<>>,
               ret |-> [success |-> FALSE, documents |-> <<>>]]

NoIngestion ==
    /\ all_files = {}
    /\ max_workers = 1
    /\ mpc = "none"
    /\ workers = [f \in PdfFiles |-> IdleWorker]
    /\ results = <<>>
    /\ all_documents = <<>>
    /\ indexed = <<>>

\* no PDF has been handed to extract_text_from_pdf
NoPdf == [file |-> "none"]
NotExtracted == [raised |-> "not_called", page_texts |-> <<>>, ran |-> <<>>]

NoExtraction ==
    /\ pdf = NoPdf
    /\ extracted = NotExtracted
    /\ documents = <<>>

\* the session state the app starts with (app_multimodal.py, lines 46-61)
DefaultSettings == [max_images |-> 5, use_chat_history |-> TRUE, chat_history_length |-> 5]
NoExchange == [asked |-> FALSE]

NoSession ==
    /\ messages = <<>>
    /\ settings = DefaultSettings
    /\ exchange = NoExchange

\* process_text_file has not been handed a file
NotProcessed == [success |-> FALSE, file_name |-> "none", documents |-> <<>>, error |-> "none"]
NoTextFile == text_file = [file_path |-> "none", content |-> [kind |-> "none"],
                           result |-> NotProcessed]

\* no ingestion is being repeated
NoRerun == rerun = [method |-> "none", pdf_files |-> {}, picture |-> <<>>, runs |-> <<>>]

\* the files an unlink can fail on while walking ids
Unlinkable(st, ids) == {id \in ids : id \in Keys(st.registry) /\ st.files[id] # NoFile}

SetCache(st) ==
    /\ registry' = st.registry
    /\ files' = st.files
    /\ current_memory' = st.mem

CacheInit ==
    /\ registry = <<>>
    /\ files = [id \in CacheIds |-> NoFile]
    /\ current_memory = 0
    /\ last = NoCall
    /\ NoIngestion
    /\ NoExtraction
    /\ NoSession
    /\ NoRerun
    /\ NoTextFile

\* add_image(id, img, ImageMetadata(id)) returns True
AddImageReturns(id, img) ==
    /\ current_memory + PngSize(img) <= MemCap
    /\ \E unlinkFails \in SUBSET Unlinkable(CacheState, Keys(registry)) :
        SetCache(AddImageOk(CacheState, id, img, ImageMetadata(id), unlinkFails))
    /\ last' = Call("add_image", id,
                    IF id \in Keys(registry) THEN "registered" ELSE "new", None)
    /\ UNCHANGED <<ingestVars, extractVars, queryVars, rerunVars, textVars>>

\* add_image(id, img, ...) raises ImageExtractionError: image.save or stat failed
AddImageRaises(id, img) ==
    \E step \in {"save_raised", "stat_raised"} :
        /\ files' = IF step = "stat_raised"
                    THEN [files EXCEPT ![id] = PngEncode(img)] ELSE files
        /\ UNCHANGED <<registry, current_memory>>
        /\ last' = Call("add_image", id, step, None)
        /\ UNCHANGED <<ingestVars, extractVars, queryVars, rerunVars, textVars>>

AddImage == \E id \in DOMAIN files, img \in Images : AddImageReturns(id, img)

AddImageFails == \E id \in DOMAIN files, img \in Images : AddImageRaises(id, img)

\* get_image(id)
GetImageCall(id) ==
    \E openFails \in BOOLEAN :
        LET got == GetImage(CacheState, id, openFails)
        IN  /\ registry' = got[2]
            /\ UNCHANGED <<files, current_memory>>
            /\ last' = Call("get_image", id,
                            IF id \notin Keys(registry) THEN "unregistered"
                            ELSE IF files[id] = NoFile THEN "missing"
                            ELSE IF openFails THEN "unreadable"
                            ELSE "hit",
                            got[1])
            /\ UNCHANGED <<ingestVars, extractVars, queryVars, rerunVars, textVars>>

GetImageAny == \E id \in DOMAIN files : GetImageCall(id)

\* clear()
Clear ==
    \E unlinkFails \in SUBSET Unlinkable(CacheState, Keys(registry)) :
        /\ SetCache(ClearCache(CacheState, unlinkFails))
        /\ last' = Call("clear", <<>>,
                        IF unlinkFails # {} THEN "unlink_failed" ELSE "clean", None)
        /\ UNCHANGED <<ingestVars, extractVars, queryVars, rerunVars, textVars>>

\* a cache file disappears from the cache directory behind the cache's back
\* (the case get_image checks for with cache_path.exists())
FileLost ==
    \E id \in DOMAIN files :
        /\ files[id] # NoFile
        /\ files' = [files EXCEPT ![id] = NoFile]
        /\ UNCHANGED <<registry, current_memory>>
        /\ last' = Call("file_lost", id, "none", None)
        /\ UNCHANGED <<ingestVars, extractVars, queryVars, rerunVars, textVars>>

Init == CacheInit

Next ==
    \/ AddImage
    \/ AddImageFails
    \/ GetImageAny
    \/ Clear
    \/ FileLost

Spec == Init /\ [][Next]_vars

\* ------------------------------------------------------------ ingestion
\* load_and_index_documents on a directory holding PdfFiles and TextFiles:
\* the calling thread submits one process_single_pdf per PDF to a pool of
\* max_workers threads that share the cache. The cache calls of a worker are
\* split where another thread can run in between.

\* the image on page p of file f, as extract_images_high_quality renders it
PageImage(f, p) == 1

\* the pages of S in ascending order
RECURSIVE SortedPages(_)
SortedPages(S) ==
    IF S = {} THEN <<>>
    ELSE LET p == CHOOSE x \in S : \A y \in S : x <= y
         IN  <<p>> \o SortedPages(S \ {p})

\* the images of FullPageImages(f) whose page rendered without an exception
RenderedImages(f, pages) ==
    LET ps == SortedPages(pages)
    IN  [i \in 1..Len(ps) |-> FullPageImages(f)[ps[i]]]

\* every chunk of the file is given the ids of all its images
IdsOfFile(ids, p) == ids

\* image_ids_by_page.get(page_num, []): the ids of a page, in caching order
RECURSIVE IdsOfPage(_, _)
IdsOfPage(ids, p) ==
    IF ids = <<>> THEN <<>>
    ELSE (IF Head(ids)[2] = p THEN <<Head(ids)>> ELSE <<>>) \o IdsOfPage(Tail(ids), p)

\* the Document loop of process_single_pdf: one chunk per key of page_texts,
\* in the order of the dict (page_texts: the page numbers in that order)
BuildDocuments(f, page_texts, image_ids) ==
    [i \in 1..Len(page_texts) |->
        [file_name   |-> f,
         page        |-> page_texts[i],
         total_pages |-> Len(page_texts),
         image_ids   |-> IdsOfPage(image_ids, page_texts[i]),
         num_images  |-> Len(IdsOfPage(image_ids, page_texts[i]))]]

\* -------------------------------------------------------- text extraction
\* extract_text_from_pdf(pdf_path) (core/pdf_processor.py). A PDF is described
\* by what the file system and the two readers do with it:
\*   stat      "missing" | "empty" | "ok"      (exists(), st_size)
\*   encrypted pdf_reader.is_encrypted
\*   plumber   [whole, page]: whole = "open"  pdfplumber.open / pdf.pages raises,
\*                                    "close" leaving the with block raises,
\*                                    "ok"    neither; page[p] = what
\*             page.extract_text() does on page p
\*   pypdf     [fail, at, page]: fail = "none" | "PdfReadError" | "Exception",
\*             raised by PdfReader(file) (at = 0) or when page at is fetched
\*             from the lazy pdf_reader.pages (at >= 1)

\* what page.extract_text() does: returns a text, returns only white space,
\* returns the empty string, or raises
PageOutcomes == {"text", " ", "", "raise"}

\* page_text.strip()
Strip(text) == IF text = " " THEN "" ELSE text
\* the truth value of a str
Truthy(text) == text # ""
\* if page_text and page_text.strip():
HasText(text) == Truthy(text) /\ Truthy(Strip(text))

PlumberBehaviours(n) ==
    [whole : {"ok", "open", "close"}, page : [1..n -> PageOutcomes]]

PypdfBehaviours(n) ==
    {b \in [fail : {"none", "PdfReadError", "Exception"}, at : 0..n,
            page : [1..n -> PageOutcomes]] : b.fail = "none" => b.at = 0}

\* the PDFs extract_text_from_pdf is called with
PdfDocs ==
    UNION {[file : {f}, stat : {"ok"}, encrypted : BOOLEAN,
            plumber : PlumberBehaviours(NumPagesOf(f)),
            pypdf : PypdfBehaviours(NumPagesOf(f))] : f \in PdfFiles}
    \cup
    UNION {[file : {f}, stat : {"missing", "empty"}, encrypted : {FALSE},
            plumber : {[whole |-> "open", page |-> [p \in 1..NumPagesOf(f) |-> "raise"]]},
            pypdf : {[fail |-> "Exception", at |-> 0,
                      page |-> [p \in 1..NumPagesOf(f) |-> "raise"]]}] : f \in PdfFiles}

\* for page_num, page in enumerate(pages, 1): the pages p..to in turn, each in
\* its own try; page_texts[page_num] = page_text for a page that has text
RECURSIVE ReadPages(_, _, _, _, _)
ReadPages(page_texts, reader, page, p, to) ==
    IF p > to THEN page_texts
    ELSE ReadPages(IF page[p] # "raise" /\ HasText(page[p])
                   THEN DictSet(page_texts, [id |-> p, by |-> reader, text |-> page[p]])
                   ELSE page_texts,
                   reader, page, p + 1, to)

Raised(kind, ran) == [raised |-> kind, page_texts |-> <<>>, ran |-> ran]
Returned(page_texts, ran) == [raised |-> "none", page_texts |-> page_texts, ran |-> ran]

\* lines 79-87: nothing collected is the generic error, otherwise the map
AfterBothReaders(page_texts, ran) ==
    IF page_texts = <<>> THEN Raised("no_text", ran) ELSE Returned(page_texts, ran)

\* lines 28-48: what pdfplumber leaves in page_texts, and whether line 44 returns
PlumberPages(d) ==
    IF d.plumber.whole = "open" THEN <<>>
    ELSE ReadPages(<<>>, "pdfplumber", d.plumber.page, 1, NumPagesOf(d.file))

PlumberReturns(d) == d.plumber.whole = "ok" /\ PlumberPages(d) # <<>>

\* lines 50-77: pypdf, started with the page_texts pdfplumber left behind
PypdfPass(d, page_texts, ran) ==
    LET n == NumPagesOf(d.file)
        b == d.pypdf
        upto == IF b.fail = "none" THEN n ELSE b.at - 1
        read == ReadPages(page_texts, "pypdf", b.page, 1, upto)
    IN  IF b.fail # "none" /\ b.at = 0
        THEN IF b.fail = "PdfReadError" THEN Raised("read_error", ran)
             ELSE AfterBothReaders(page_texts, ran)
        ELSE IF d.encrypted
        THEN \* raise PDFProcessingError, caught by except Exception (line 76)
             AfterBothReaders(page_texts, ran)
        ELSE IF b.fail = "PdfReadError" THEN Raised("read_error", ran)
        ELSE \* lines 70-72 return a map that is not empty; lines 76-87 otherwise
             AfterBothReaders(read, ran)

\* extract_text_from_pdf(pdf_path): [raised, page_texts, ran]; ran lists the
\* readers that were started on the file
ExtractTextFromPdf(d) ==
    IF d.stat = "missing" THEN Raised("not_found", <<>>)
    ELSE IF d.stat = "empty" THEN Raised("empty_file", <<>>)
    ELSE IF PlumberReturns(d) THEN Returned(PlumberPages(d), <<"pdfplumber">>)
    ELSE PypdfPass(d, PlumberPages(d), <<"pdfplumber", "pypdf">>)

\* the page maps extract_text_from_pdf can return for a file, as key orders
ReturnedPageMaps ==
    [f \in PdfFiles |->
        {KeyList(ExtractTextFromPdf(d).page_texts) :
            d \in {x \in PdfDocs : x.file = f /\ ExtractTextFromPdf(x).raised = "none"}}]

\* extract_text_from_pdf is handed one PDF; process_single_pdf then builds the
\* Documents of the returned page map (no image was extracted)
ExtractInit ==
    /\ pdf \in PdfDocs
    /\ extracted = NotExtracted
    /\ documents = <<>>
    /\ registry = <<>>
    /\ files = [id \in CacheIds |-> NoFile]
    /\ current_memory = 0
    /\ last = NoCall
    /\ NoIngestion
    /\ NoSession
    /\ NoRerun
    /\ NoTextFile

\* page_texts = extract_text_from_pdf(file_path)
ExtractText ==
    /\ extracted = NotExtracted
    /\ extracted' = ExtractTextFromPdf(pdf)
    /\ UNCHANGED <<cacheVars, last, ingestVars, queryVars, rerunVars, textVars, pdf, documents>>

\* process_single_pdf, lines 104-119: for page_num, page_text in page_texts.items()
MakeDocuments ==
    /\ extracted.raised = "none"
    /\ documents = <<>>
    /\ documents' = BuildDocuments(pdf.file, KeyList(extracted.page_texts), <<>>)
    /\ UNCHANGED <<cacheVars, last, ingestVars, queryVars, rerunVars, textVars, pdf, extracted>>

ExtractNext ==
    \/ ExtractText
    \/ MakeDocuments

SpecExtract == ExtractInit /\ [][ExtractNext]_vars

\* what process_single_pdf returns, lines 121-128
Succeeded(w, f) ==
    [w EXCEPT !.pc = "returned",
              !.ret = [success |-> TRUE,
                       documents |-> BuildDocuments(f, w.page_texts, w.image_ids)]]
\* the except block returns the chunks of the images cached so far as a success
FailedWithPartialResult(w) ==
    [w EXCEPT !.pc = "returned",
              !.ret = [success |-> TRUE, documents |-> <<>>]]

\* lines 130-136: except Exception: return {"success": False, ...}
Failed(w) ==
    [w EXCEPT !.pc = "returned", !.ret = [success |-> FALSE, documents |-> <<>>]]

\* threads of the pool that are inside process_single_pdf
Running == {f \in PdfFiles : workers[f].pc \notin {"idle", "queued", "returned", "collected"}}
\* files whose process_single_pdf has returned
Finished == {f \in PdfFiles : workers[f].pc \in {"returned", "collected"}}

\* after add_image returned: remember the id, go on to the next image or return
AfterAdd(w, f) ==
    LET w1 == [w EXCEPT !.image_ids = Append(w.image_ids, w.id),
                        !.images = Tail(w.images), !.victims = <<>>]
    IN  IF w1.images = <<>> THEN Succeeded(w1, f) ELSE [w1 EXCEPT !.pc = "add"]

\* the for loop of _cleanup_old_images moves on to the next id
NextVictim(w, f) ==
    IF Tail(w.victims) = <<>> THEN AfterAdd(w, f)
    ELSE [w EXCEPT !.victims = Tail(w.victims), !.pc = "rm_check"]

IngestInit ==
    /\ registry = <<>>
    /\ files = [id \in ImageIdsOf(PdfFiles) |-> NoFile]
    /\ current_memory = 0
    /\ last = NoCall
    /\ all_files \in Directories
    /\ max_workers \in 1..MaxWorkers
    /\ mpc = "list"
    /\ workers = [f \in PdfFiles |-> IdleWorker]
    /\ results = <<>>
    /\ all_documents = <<>>
    /\ indexed = <<>>
    /\ NoExtraction
    /\ NoSession
    /\ NoRerun
    /\ NoTextFile

\* lines 190-195: all_files = list(data_path.glob("*.*")); no file is an error
\* returned before the cache is initialised
MainList ==
    /\ mpc = "list"
    /\ mpc' = IF all_files = {} THEN "no_files" ELSE "submit"
    /\ UNCHANGED <<cacheVars, last, extractVars, queryVars, rerunVars, textVars, all_files, max_workers, workers, results,
                   all_documents, indexed>>

\* executor.submit(process_single_pdf, ...) for every PDF
MainSubmit ==
    /\ mpc = "submit"
    /\ mpc' = "collect"
    /\ workers' = [f \in PdfFiles |-> [workers[f] EXCEPT !.pc = "queued"]]
    /\ UNCHANGED <<cacheVars, last, extractVars, queryVars, rerunVars, textVars, all_files, max_workers, results, all_documents, indexed>>

\* a pool thread takes the file: validate_pdf_file, extract_text_from_pdf and
\* extract_images_from_pdf (each may raise; a page that fails to render is skipped)
WorkerExtract(f) ==
    /\ workers[f].pc = "queued"
    /\ Cardinality(Running) < max_workers
    /\ \/ workers' = [workers EXCEPT ![f] = Failed(@)]
       \/ \E texts \in ReturnedPageMaps[f], rendered \in SUBSET (1..NumPagesOf(f)) :
            LET w == [workers[f] EXCEPT !.page_texts = texts,
                                        !.images = RenderedImages(f, rendered)]
            IN  workers' = [workers EXCEPT ![f] =
                               IF w.images = <<>> THEN Succeeded(w, f)
                               ELSE [w EXCEPT !.pc = "add"]]
    /\ UNCHANGED <<cacheVars, last, extractVars, queryVars, rerunVars, textVars, all_files, max_workers, mpc, results, all_documents, indexed>>

\* add_image, lines 36-47: save the file, stat it, registry[image_id] = entry
WorkerAddSave(f) ==
    LET w == workers[f]
        img == Head(w.images)
        id == ImageId(f, img.page, img.type, img.index, img.rect_index)
        file == PngEncode(PageImage(f, img.page))
    IN  /\ w.pc = "add"
        /\ \/ /\ files' = [files EXCEPT ![id] = file]
              /\ registry' = DictSet(registry, [id |-> id, path |-> id,
                                                metadata |-> ImageMetadata(id),
                                                size |-> file.size])
              /\ workers' = [workers EXCEPT ![f] =
                                 [w EXCEPT !.pc = "mem_read", !.id = id, !.size = file.size]]
           \/ \E step \in {"save_raised", "stat_raised"} :
              /\ files' = IF step = "stat_raised"
                          THEN [files EXCEPT ![id] = file] ELSE files
              /\ workers' = [workers EXCEPT ![f] = Failed(w)]
              /\ UNCHANGED registry
        /\ UNCHANGED <<current_memory, last, extractVars, queryVars, rerunVars, textVars, all_files, max_workers, mpc, results, all_documents, indexed>>

\* add_image, line 49: self.current_memory += file_size, the read
WorkerMemRead(f) ==
    /\ workers[f].pc = "mem_read"
    /\ workers' = [workers EXCEPT ![f] = [@ EXCEPT !.pc = "mem_write", !.tmp = current_memory]]
    /\ UNCHANGED <<cacheVars, last, extractVars, queryVars, rerunVars, textVars, all_files, max_workers, mpc, results, all_documents, indexed>>

\* add_image, line 49: self.current_memory += file_size, the write
WorkerMemWrite(f) ==
    /\ workers[f].pc = "mem_write"
    /\ current_memory' = workers[f].tmp + workers[f].size
    /\ workers' = [workers EXCEPT ![f] = [@ EXCEPT !.pc = "check"]]
    /\ UNCHANGED <<registry, files, last, extractVars, queryVars, rerunVars, textVars, all_files, max_workers, mpc, results, all_documents, indexed>>

\* add_image, lines 53-56: the limit check; _cleanup_old_images takes its list of ids
WorkerCheck(f) ==
    LET w == workers[f]
        victims == CleanupVictims(registry)
    IN  /\ w.pc = "check"
        /\ workers' = [workers EXCEPT ![f] =
                           IF OverLimit(current_memory) /\ victims # <<>>
                           THEN [w EXCEPT !.pc = "rm_check", !.victims = victims]
                           ELSE AfterAdd(w, f)]
        /\ UNCHANGED <<cacheVars, last, extractVars, queryVars, rerunVars, textVars, all_files, max_workers, mpc, results, all_documents, indexed>>

\* _remove_image, lines 92-96: the membership test and the unlink
WorkerRmCheck(f) ==
    LET w == workers[f]
        v == Head(w.victims)
    IN  /\ w.pc = "rm_check"
        /\ IF v \notin Keys(registry)
           THEN /\ workers' = [workers EXCEPT ![f] = NextVictim(w, f)]
                /\ UNCHANGED files
           ELSE \/ /\ files' = [files EXCEPT ![v] = NoFile]
                   /\ workers' = [workers EXCEPT ![f] = [w EXCEPT !.pc = "rm_read"]]
                \/ /\ files[v] # NoFile       \* unlink raises
                   /\ workers' = [workers EXCEPT ![f] = NextVictim(w, f)]
                   /\ UNCHANGED files
        /\ UNCHANGED <<registry, current_memory, last, extractVars, queryVars, rerunVars, textVars, all_files, max_workers, mpc, results,
                       all_documents, indexed>>

\* _remove_image, line 97: current_memory -= registry[image_id]["size"], the reads
WorkerRmRead(f) ==
    LET w == workers[f]
        v == Head(w.victims)
    IN  /\ w.pc = "rm_read"
        /\ workers' = [workers EXCEPT ![f] =
                           IF v \notin Keys(registry)
                           THEN NextVictim(w, f)   \* KeyError, caught
                           ELSE [w EXCEPT !.pc = "rm_write",
                                          !.tmp = current_memory - Entry(registry, v).size]]
        /\ UNCHANGED <<cacheVars, last, extractVars, queryVars, rerunVars, textVars, all_files, max_workers, mpc, results, all_documents, indexed>>

\* _remove_image, line 97: the write
WorkerRmWrite(f) ==
    /\ workers[f].pc = "rm_write"
    /\ current_memory' = workers[f].tmp
    /\ workers' = [workers EXCEPT ![f] = [@ EXCEPT !.pc = "rm_del"]]
    /\ UNCHANGED <<registry, files, last, extractVars, queryVars, rerunVars, textVars, all_files, max_workers, mpc, results, all_documents, indexed>>

\* _remove_image, line 98: del registry[image_id] (a KeyError is caught)
WorkerRmDel(f) ==
    LET w == workers[f]
        v == Head(w.victims)
    IN  /\ w.pc = "rm_del"
        /\ registry' = IF v \in Keys(registry) THEN DictDel(registry, v) ELSE registry
        /\ workers' = [workers EXCEPT ![f] = NextVictim(w, f)]
        /\ UNCHANGED <<files, current_memory, last, extractVars, queryVars, rerunVars, textVars, all_files, max_workers, mpc, results,
                       all_documents, indexed>>

\* all_documents = result["documents"]: the chunks of the files before are lost
ExtendDocumentsOverwrites(docs, ret) ==
    IF ret.success THEN ret.documents ELSE docs

\* all_documents.extend(result["documents"]) for a successful file only
ExtendDocuments(docs, ret) ==
    IF ret.success THEN docs \o ret.documents ELSE docs

\* as_completed hands over the future of a finished file
MainCollect(f) ==
    /\ mpc = "collect"
    /\ workers[f].pc = "returned"
    /\ results' = Append(results, [file_name |-> f, success |-> workers[f].ret.success])
    /\ all_documents' = ExtendDocuments(all_documents, workers[f].ret)
    /\ workers' = [workers EXCEPT ![f] = [@ EXCEPT !.pc = "collected"]]
    /\ UNCHANGED <<cacheVars, last, extractVars, queryVars, rerunVars, textVars, all_files, max_workers, mpc, indexed>>

\* the loop is left after the first future (executor.shutdown(wait=False))
PoolDrainedFirstOnly == \E f \in PdfFiles : workers[f].pc = "collected"

\* the as_completed loop and the with block end: every future was handed over
PoolDrained == \A f \in PdfFiles : workers[f].pc = "collected"

MainJoin ==
    /\ mpc = "collect"
    /\ PoolDrained
    /\ mpc' = "text"
    /\ UNCHANGED <<cacheVars, last, extractVars, queryVars, rerunVars, textVars, all_files, max_workers, workers, results, all_documents, indexed>>

\* process_text_file(t): one whole-file chunk, or a failure record
MainText(t) ==
    /\ mpc = "text"
    /\ \A i \in 1..Len(results) : results[i].file_name # t
    /\ \E decoded \in BOOLEAN :
        /\ results' = Append(results, [file_name |-> t, success |-> decoded])
        /\ all_documents' =
              IF decoded
              THEN Append(all_documents, [file_name |-> t, page |-> 0, total_pages |-> 0,
                                          image_ids |-> <<>>, num_images |-> 0])
              ELSE all_documents
    /\ UNCHANGED <<cacheVars, last, extractVars, queryVars, rerunVars, textVars, all_files, max_workers, mpc, workers, indexed>>

\* the check for chunks is missing: the index is built whatever was collected
NothingToIndexIgnored(docs) == FALSE

\* line 248: if not all_documents
NothingToIndex(docs) == docs = <<>>

\* lines 248-252: nothing to index is an error, otherwise go on to the index
MainCheck ==
    /\ mpc = "text"
    /\ \A t \in TextFiles : \E i \in 1..Len(results) : results[i].file_name = t
    /\ mpc' = IF NothingToIndex(all_documents) THEN "no_documents" ELSE "index"
    /\ UNCHANGED <<cacheVars, last, extractVars, queryVars, rerunVars, textVars, all_files, max_workers, workers, results, all_documents, indexed>>

\* VectorStoreIndex.from_documents(all_documents, ...), which may raise
MainIndex ==
    /\ mpc = "index"
    /\ \/ indexed' = all_documents /\ mpc' = "done"
       \/ indexed' = indexed /\ mpc' = "index_failed"
    /\ UNCHANGED <<cacheVars, last, extractVars, queryVars, rerunVars, textVars, all_files, max_workers, workers, results, all_documents>>

WorkerStep ==
    \E f \in PdfFiles :
        \/ WorkerExtract(f)
        \/ WorkerAddSave(f)
        \/ WorkerMemRead(f)
        \/ WorkerMemWrite(f)
        \/ WorkerCheck(f)
        \/ WorkerRmCheck(f)
        \/ WorkerRmRead(f)
        \/ WorkerRmWrite(f)
        \/ WorkerRmDel(f)

IngestNext ==
    \/ MainList
    \/ MainSubmit
    \/ WorkerStep
    \/ \E f \in PdfFiles : MainCollect(f)
    \/ MainJoin
    \/ \E t \in TextFiles : MainText(t)
    \/ MainCheck
    \/ MainIndex

SpecIngest == IngestInit /\ [][IngestNext]_vars

\* ------------------------------------------------------------ the question
\* The chat input handler of app_multimodal.py (lines 903-975) with
\* query_with_multimodal, create_multimodal_prompt, build_chat_messages and
\* render_response_with_images. A text is a sequence of tokens: [text |-> s]
\* for a run of plain text, [marker |-> n] for the literal "[画像n]".

\* the PDF chunks retrieval ranks: a.pdf indexed with the embedded method, two
\* images on page 1 and one on page 2
StoredImageIds ==
    <<ImageId("a.pdf", 1, "embedded", 1, 1), ImageId("a.pdf", 1, "embedded", 2, 1),
      ImageId("a.pdf", 2, "embedded", 1, 1)>>
StoredChunks == BuildDocuments("a.pdf", <<1, 2>>, StoredImageIds)
ChatImageIds == {StoredImageIds[i] : i \in 1..Len(StoredImageIds)}
\* the picture cached under a stored id
StoredImage(id) == CHOOSE i \in 1..Len(StoredImageIds) : StoredImageIds[i] = id

\* response.source_nodes: stored chunks as retrieval ranks them
RankedNodes ==
    {<<>>} \cup {<<StoredChunks[i]>> : i \in 1..Len(StoredChunks)}
    \cup {<<StoredChunks[x[1]], StoredChunks[x[2]]>> :
              x \in {y \in (DOMAIN StoredChunks) \X (DOMAIN StoredChunks) : y[1] # y[2]}}

\* the sidebar: max_images, use_chat_history and chat_history_length (which
\* stays at its default while the history is switched off)
SettingsChoices ==
    [max_images : 1..MaxImagesSetting, use_chat_history : {TRUE},
     chat_history_length : 1..MaxHistory]
    \cup [max_images : 1..MaxImagesSetting, use_chat_history : {FALSE},
          chat_history_length : {DefaultSettings.chat_history_length}]

\* the answers the model gives: nothing, plain text, or one marker with or
\* without plain text before and after it
PlainText == [text |-> "t"]
Markers == {[marker |-> n] : n \in 1..NumMarkers}
IsMarker(tok) == "marker" \in DOMAIN tok
Answers ==
    {<<>>, <<PlainText>>}
    \cup UNION {{<<m>>, <<PlainText, m>>, <<m, PlainText>>, <<PlainText, m, PlainText>>} :
                   m \in Markers}

\* image_to_base64(image): the PNG bytes of the image, base64 encoded
ImageToBase64(image) == [base64 |-> PngEncode(image)]

\* lst[-n:]
LastN(lst, n) ==
    IF n = 0 \/ n >= Len(lst) THEN lst ELSE SubSeq(lst, Len(lst) - n + 1, Len(lst))
\* lst[-n:] taken where lst[:n] is meant
FirstNTakesLast(lst, n) ==
    IF n >= Len(lst) THEN lst ELSE SubSeq(lst, Len(lst) - n + 1, Len(lst))

\* lst[:n]
FirstN(lst, n) == IF n >= Len(lst) THEN lst ELSE SubSeq(lst, 1, n)

\* an id that did not resolve takes the next display number all the same
SkipImageTakesNumber(acc, cache) ==
    [acc EXCEPT !.cache = cache, !.image_counter = @ + 1]

\* create_multimodal_prompt, line 58: cached_data is None, nothing is added
SkipImage(acc, cache) == [acc EXCEPT !.cache = cache]

\* create_multimodal_prompt, lines 56-72: the ids of one node. acc is
\* [text_parts, image_documents, image_counter, cache]
RECURSIVE LoadImages(_, _)
LoadImages(acc, image_ids) ==
    IF image_ids = <<>> THEN acc
    ELSE LET image_id == Head(image_ids)
             got == GetImage(acc.cache, image_id,
                             acc.cache.files[image_id].kind = "corrupt")
             cached_data == got[1]
             cache == [acc.cache EXCEPT !.registry = got[2]]
         IN  LoadImages(
                 IF cached_data # None
                 THEN [text_parts |-> Append(acc.text_parts,
                                             [kind |-> "marker",
                                              number |-> acc.image_counter,
                                              file_name |-> cached_data.metadata.file_name,
                                              page |-> cached_data.metadata.page]),
                       image_documents |-> Append(acc.image_documents,
                                                  [image |-> cached_data.image,
                                                   metadata |-> cached_data.metadata,
                                                   number |-> acc.image_counter]),
                       image_counter |-> acc.image_counter + 1,
                       cache |-> cache]
                 ELSE SkipImage(acc, cache),
                 Tail(image_ids))

\* the image counter starts again at 1 with every node
StartNodeResetsCounter(acc, idx, node) ==
    [acc EXCEPT !.text_parts =
                    Append(@, [kind |-> "source", number |-> idx,
                               file_name |-> node.file_name, page |-> node.page]),
                !.image_counter = 1]

\* create_multimodal_prompt, lines 42-45: the source header of a node
StartNode(acc, idx, node) ==
    [acc EXCEPT !.text_parts =
                    Append(@, [kind |-> "source", number |-> idx,
                               file_name |-> node.file_name, page |-> node.page])]

\* create_multimodal_prompt, lines 40-76: the nodes from the idx-th on
RECURSIVE AddNodes(_, _, _)
AddNodes(acc, nodes, idx) ==
    IF idx > Len(nodes) THEN acc
    ELSE LET node == nodes[idx]
             head == StartNode(acc, idx, node)
             body == LoadImages(head, node.image_ids)
         IN  AddNodes([body EXCEPT !.text_parts = Append(@, [kind |-> "separator"])],
                      nodes, idx + 1)

\* create_multimodal_prompt(query, nodes, image_cache): the prompt text as its
\* parts, the image documents, and the cache get_image leaves behind
CreateMultimodalPrompt(query, nodes, cache) ==
    LET start == [text_parts |-> <<[kind |-> "question", query |-> query],
                                   [kind |-> "instruction", examples |-> <<1, 2>>]>>,
                  image_documents |-> <<>>,
                  image_counter |-> 1,
                  cache |-> cache]
        done == AddNodes(start, nodes, 1)
    IN  [prompt_text |-> Append(done.text_parts,
                                [kind |-> "instruction", examples |-> <<1>>]),
         image_documents |-> done.image_documents,
         cache |-> done.cache]

\* query_with_multimodal, lines 131-139 (and 178-186): the chat history
ChatHistory(msgs, use_chat_history, chat_history_length) ==
    IF use_chat_history
    THEN LET recent_messages == LastN(msgs, chat_history_length * 2)
             kept == SelectSeq(recent_messages,
                               LAMBDA msg : msg.role \in {"user", "assistant"})
         IN  [i \in 1..Len(kept) |-> [role |-> kept[i].role, content |-> kept[i].content]]
    ELSE <<>>

\* build_chat_messages(prompt_text, image_base64_list, image_detail, max_images,
\* chat_history)
BuildChatMessages(prompt_text, image_base64_list, max_images, chat_history) ==
    LET sent == FirstN(image_base64_list, max_images)
        content == [text |-> prompt_text,
                    image_url |-> [i \in 1..Len(sent) |->
                                      [url |-> sent[i], detail |-> "high"]]]
    IN  chat_history \o <<[role |-> "user", content |-> content]>>

\* the handler propagates what it caught (a bare raise at the end of the except)
CaughtAndRaisedAgain(e) ==
    [raised |-> TRUE,
     value |-> [answer |-> <<>>, source_nodes |-> <<>>, image_documents |-> <<>>,
                success |-> FALSE, error |-> e]]

\* query_with_multimodal, lines 215-223: except Exception as e
Caught(e) ==
    [raised |-> FALSE,
     value |-> [answer |-> <<[text |-> "error occurred: "], [text |-> e]>>,
                source_nodes |-> <<>>, image_documents |-> <<>>,
                success |-> FALSE, error |-> e]]

NoRequest == <<>>

\* query_with_multimodal(index, query_text, ...) with the session's settings;
\* fail: the step that raises ("retrieval": query_engine.query, "encode":
\* image_to_base64, "api": call_chat_api, "none"), answer: what the model says.
\* [outcome, cache, prompt_text, request]
QueryWithMultimodal(query_text, nodes, cache, msgs, s, fail, answer) ==
    IF fail = "retrieval"
    THEN [outcome |-> Caught(fail), cache |-> cache, prompt_text |-> <<>>,
          request |-> NoRequest]
    ELSE LET p == CreateMultimodalPrompt(query_text, nodes, cache)
             chat_history == ChatHistory(msgs, s.use_chat_history, s.chat_history_length)
             capped == FirstN(p.image_documents, s.max_images)
             image_base64_list == [i \in 1..Len(capped) |-> ImageToBase64(capped[i].image)]
             request ==
                 IF p.image_documents # <<>>
                 THEN BuildChatMessages(p.prompt_text, image_base64_list,
                                        s.max_images, chat_history)
                 ELSE BuildChatMessages(p.prompt_text, <<>>,
                                        DefaultSettings.max_images, chat_history)
         IN  IF fail = "encode" /\ p.image_documents # <<>>
             THEN [outcome |-> Caught(fail), cache |-> p.cache,
                   prompt_text |-> p.prompt_text, request |-> NoRequest]
             ELSE [outcome |-> IF fail = "api" THEN Caught(fail)
                               ELSE [raised |-> FALSE,
                                     value |-> [answer |-> answer,
                                                source_nodes |-> nodes,
                                                image_documents |-> p.image_documents,
                                                success |-> TRUE]],
                   cache |-> p.cache, prompt_text |-> p.prompt_text,
                   request |-> request]

\* re.split(r'\[画像(\d+)\]', answer): text, number, text, ..., text
RECURSIVE SplitMarkers(_, _)
SplitMarkers(answer, text) ==
    IF answer = <<>> THEN <<[text |-> text]>>
    ELSE IF IsMarker(Head(answer))
    THEN <<[text |-> text], [number |-> Head(answer).marker]>>
         \o SplitMarkers(Tail(answer), "")
    ELSE SplitMarkers(Tail(answer), Head(answer).text)

\* the number is taken as a position in the list, counted from zero
ShowImageByPosition(img_num, image_documents) ==
    IF img_num + 1 \in 1..Len(image_documents)
    THEN <<[kind |-> "image", number |-> img_num,
            image |-> image_documents[img_num + 1].image]>>
    ELSE <<>>

\* render_response_with_images, lines 247-254: the first image document that
\* carries the number is shown
ShowImage(img_num, image_documents) ==
    LET hits == SelectSeq(image_documents, LAMBDA img_doc : img_doc.number = img_num)
    IN  IF hits = <<>> THEN <<>>
        ELSE <<[kind |-> "image", number |-> img_num, image |-> Head(hits).image]>>

\* render_response_with_images, lines 238-254: the parts from the i-th on
RECURSIVE RenderParts(_, _, _)
RenderParts(parts, i, image_documents) ==
    IF i > Len(parts) THEN <<>>
    ELSE (IF i % 2 = 1
          THEN IF Truthy(Strip(parts[i].text))
               THEN <<[kind |-> "text", text |-> parts[i].text]>> ELSE <<>>
          ELSE ShowImage(parts[i].number, image_documents))
         \o RenderParts(parts, i + 1, image_documents)

\* render_response_with_images(answer, image_documents): what is displayed
RenderResponseWithImages(answer, image_documents) ==
    RenderParts(SplitMarkers(answer, ""), 1, image_documents)

\* lines 931-936 and 965: what the handler displays for a result
Display(result) ==
    IF result.success
    THEN IF result.image_documents # <<>>
         THEN RenderResponseWithImages(result.answer, result.image_documents)
         ELSE <<[kind |-> "markdown", answer |-> result.answer]>>
    ELSE <<[kind |-> "markdown", answer |-> <<[text |-> "x "]>> \o result.answer]>>

\* lines 955-961 and 967-972: the assistant message the handler stores
AssistantMessage(result) ==
    IF result.success
    THEN [role |-> "assistant", content |-> result.answer, is_multimodal |-> TRUE]
    ELSE [role |-> "assistant", content |-> <<[text |-> "x "]>> \o result.answer,
          is_multimodal |-> FALSE]

\* the assistant message is stored for an answered question only
StoreAnswerOnSuccessOnly(msgs, result) ==
    IF result.success THEN Append(msgs, AssistantMessage(result)) ELSE msgs

\* lines 955-961 and 967-972: st.session_state.messages.append({...})
StoreAnswer(msgs, result) == Append(msgs, AssistantMessage(result))

\* a cache file Image.open cannot read
CorruptFile(size) == [kind |-> "corrupt", image |-> 0, size |-> size]

\* the ids get_image resolves in a cache
Resolvable(cache) ==
    {id \in Keys(cache.registry) : cache.files[id].kind = "png"}

\* what has become of the stored images: all are cached, or one of them is
\* registered with its file gone, registered with a file that cannot be read
\* or not registered, or (after a restart) none is registered
CacheConditions ==
    {s \in [ChatImageIds -> {"cached", "missing", "unreadable", "unregistered"}] :
        \/ Cardinality({id \in ChatImageIds : s[id] # "cached"}) <= 1
        \/ \A id \in ChatImageIds : s[id] = "unregistered"}

\* the caches a question can meet
ChatCaches ==
    {[registry |-> SelectSeq([i \in 1..Len(StoredImageIds) |->
                                 [id |-> StoredImageIds[i], path |-> StoredImageIds[i],
                                  metadata |-> ImageMetadata(StoredImageIds[i]),
                                  size |-> PngSize(i)]],
                             LAMBDA e : status[e.id] # "unregistered"),
      files |-> [id \in ChatImageIds |->
                    IF status[id] = "cached" THEN PngEncode(StoredImage(id))
                    ELSE IF status[id] = "unreadable"
                         THEN CorruptFile(PngSize(StoredImage(id)))
                         ELSE NoFile]] :
        status \in CacheConditions}

ChatInit ==
    /\ \E c \in ChatCaches :
        /\ registry = c.registry
        /\ files = c.files
        /\ current_memory = SumSizes(c.registry)
    /\ last = NoCall
    /\ NoIngestion
    /\ NoExtraction
    /\ messages = <<>>
    /\ settings \in SettingsChoices
    /\ exchange = NoExchange
    /\ NoRerun
    /\ NoTextFile

\* the chat input handler: the question is stored, query_with_multimodal runs,
\* the result is displayed and the assistant message is stored
AskWith(nodes, fail, answer) ==
    LET prompt == <<[text |-> Questions[Len(messages) \div 2 + 1]]>>
        msgs == Append(messages, [role |-> "user", content |-> prompt])
    IN  \E q \in {QueryWithMultimodal(prompt, nodes, CacheState, msgs, settings,
                                      fail, answer)} :
            /\ registry' = q.cache.registry
            /\ messages' = IF q.outcome.raised THEN msgs
                           ELSE StoreAnswer(msgs, q.outcome.value)
            /\ exchange' = [asked |-> TRUE, query |-> prompt, nodes |-> nodes,
                            fail |-> fail, model_answer |-> answer,
                            resolvable |-> Resolvable(CacheState),
                            prompt_text |-> q.prompt_text, request |-> q.request,
                            raised |-> q.outcome.raised, result |-> q.outcome.value,
                            rendered |-> IF q.outcome.raised THEN <<>>
                                         ELSE Display(q.outcome.value)]
            /\ UNCHANGED <<files, current_memory, last, settings, ingestVars, extractVars, rerunVars, textVars>>

NodeIds(nodes) == UNION {{n.image_ids[k] : k \in 1..Len(n.image_ids)} :
                            n \in {nodes[i] : i \in 1..Len(nodes)}}

Ask ==
    /\ Len(messages) \div 2 < Len(Questions)
    /\ \E nodes \in RankedNodes, fail \in {"none", "retrieval", "encode", "api"},
          answer \in Answers :
        /\ fail = "retrieval" => nodes = <<>>
        /\ fail = "encode" => NodeIds(nodes) \cap Resolvable(CacheState) # {}
        /\ fail # "none" => answer = <<>>
        /\ AskWith(nodes, fail, answer)

ChatNext == Ask

SpecChat == ChatInit /\ [][ChatNext]_vars

\* ------------------------------------------------------------- text files
\* process_text_file(file_path) (core/rag_engine.py, lines 139-180). A text
\* file is described by what open(file_path, 'r', encoding=e).read() does:
\*   kind "unreadable"  open raises OSError, whatever the encoding
\*        "empty"       the file has no bytes: every encoding reads ""
\*        "blank"       only ASCII spaces: every encoding reads " "
\*        "bytes"       decodable[i]: whether Encodings[i] decodes the bytes

\* line 144
Encodings == <<"utf-8", "shift-jis", "cp932", "euc-jp">>

\* the .txt and .md files load_and_index_documents hands over (suffix.lower())
TextFilePaths == TextFiles \cup {"m.md", "N.TXT"}

TextFileContents ==
    {[kind |-> k] : k \in {"unreadable", "empty", "blank"}}
        \cup {[kind |-> "bytes", decodable |-> d] : d \in [DOMAIN Encodings -> BOOLEAN]}

\* file_path.suffix[1:]
FileTypeOf(file_path) ==
    CASE file_path = "m.md" -> "md"
      [] file_path = "N.TXT" -> "TXT"
      [] OTHER -> "txt"

\* open(file_path, 'r', encoding=Encodings[i]) and f.read()
ReadAs(content, i) ==
    CASE content.kind = "unreadable" -> [raised |-> "OSError"]
      [] content.kind = "empty" -> [raised |-> "none", text |-> [chars |-> "", encoding |-> "any"]]
      [] content.kind = "blank" -> [raised |-> "none", text |-> [chars |-> " ", encoding |-> "any"]]
      [] OTHER -> IF content.decodable[i]
                  THEN [raised |-> "none",
                        text |-> [chars |-> "text", encoding |-> Encodings[i]]]
                  ELSE [raised |-> "UnicodeDecodeError"]

\* text = None before the loop
NoText == [chars |-> "None", encoding |-> "none"]

\* lines 147-154: the loop over the encodings from position i on; break on
\* the first read that does not raise, continue on UnicodeDecodeError
RECURSIVE ReadWithEncodings(_, _)
ReadWithEncodings(content, i) ==
    IF i > Len(Encodings) THEN [raised |-> "none", text |-> NoText]
    ELSE LET r == ReadAs(content, i)
         IN  IF r.raised = "UnicodeDecodeError" THEN ReadWithEncodings(content, i + 1)
             ELSE r

\* if not text
NotText(text) == text = NoText \/ text.chars = ""

\* process_text_file(file_path): the result record
ProcessTextFile(file_path, content) ==
    LET r == ReadWithEncodings(content, 1)
    IN  IF r.raised # "none"
        THEN [success |-> FALSE, file_name |-> file_path, error |-> r.raised]
        ELSE IF NotText(r.text)
        THEN [success |-> FALSE, file_name |-> file_path, error |-> "ValueError"]
        ELSE [success |-> TRUE, file_name |-> file_path,
              documents |-> <<[text |-> r.text, file_name |-> file_path,
                               file_type |-> FileTypeOf(file_path)]>>]

TextInit ==
    /\ registry = <<>>
    /\ files = [id \in CacheIds |-> NoFile]
    /\ current_memory = 0
    /\ last = NoCall
    /\ NoIngestion
    /\ NoExtraction
    /\ NoSession
    /\ NoRerun
    /\ text_file \in [file_path : TextFilePaths, content : TextFileContents,
                      result : {NotProcessed}]

\* result = process_text_file(file_path)
ProcessText ==
    /\ text_file.result = NotProcessed
    /\ text_file' = [text_file EXCEPT
                        !.result = ProcessTextFile(text_file.file_path, text_file.content)]
    /\ UNCHANGED <<cacheVars, last, ingestVars, extractVars, queryVars, rerunVars>>

TextNext == ProcessText

SpecText == TextInit /\ [][TextNext]_vars

\* --------------------------------------------------------------- rendering
\* render_response_with_images(answer, image_documents) on its own: the answer
\* is any text of at most MaxAnswerParts parts, the image documents carry the
\* numbers 1..k as create_multimodal_prompt assigns them.

\* a part of the answer: plain text, white space only, or a marker
AnswerParts == {PlainText, [text |-> " "]} \cup Markers

\* the answers: no two text parts side by side (they would be one text)
RenderAnswers ==
    {a \in UNION {[1..n -> AnswerParts] : n \in 0..MaxAnswerParts} :
        \A i \in 1..(Len(a) - 1) : IsMarker(a[i]) \/ IsMarker(a[i + 1])}

\* the image documents of a context with k images
ImageDocuments(k) ==
    [i \in 1..k |-> [image |-> i, metadata |-> [file_name |-> "a.pdf", page |-> 1],
                     number |-> i]]

RenderInit ==
    /\ registry = <<>>
    /\ files = [id \in CacheIds |-> NoFile]
    /\ current_memory = 0
    /\ last = NoCall
    /\ NoIngestion
    /\ NoExtraction
    /\ NoRerun
    /\ NoTextFile
    /\ messages = <<>>
    /\ settings = DefaultSettings
    /\ exchange \in [asked : {FALSE}, answer : RenderAnswers,
                     image_documents : {ImageDocuments(k) : k \in 0..NumMarkers}]

\* render_response_with_images(answer, image_documents)
RenderAnswer ==
    /\ ~exchange.asked
    /\ "answer" \in DOMAIN exchange
    /\ exchange' = [asked |-> TRUE, answer |-> exchange.answer,
                    image_documents |-> exchange.image_documents,
                    rendered |-> RenderResponseWithImages(exchange.answer,
                                                          exchange.image_documents)]
    /\ UNCHANGED <<cacheVars, last, ingestVars, extractVars, rerunVars, textVars, messages, settings>>

RenderNext == RenderAnswer

SpecRender == RenderInit /\ [][RenderNext]_vars

\* ------------------------------------------------------ start-up recovery
\* The image cache restore of app_multimodal.py, lines 93-129: the metadata of
\* the chunks stored in the collection are scanned and the image ids they
\* list are registered again if their cache file is on disk. The pass runs
\* once per session, on the ImageCache() the session has just created.

\* the most chunks the stored collection holds
MaxStoredChunks == 3

\* what a stored chunk carries under "image_ids":
\*   json     a JSON string of a list of ids (json.dumps(page_image_ids))
\*   list     a list of ids
\*   invalid  a string json.loads raises JSONDecodeError on
\*   null     a JSON string of something that is no list (the for raises TypeError)
\* a chunk of a text file has no "image_ids" key
StoredMetadatas ==
    {[file_name |-> "a.pdf", page |-> 1,
      image_ids |-> [kind |-> "json", ids |-> <<StoredImageIds[1], StoredImageIds[2]>>]],
     [file_name |-> "a.pdf", page |-> 2,
      image_ids |-> [kind |-> "list", ids |-> <<StoredImageIds[2], StoredImageIds[3]>>]],
     [file_name |-> "a.pdf", page |-> 2,
      image_ids |-> [kind |-> "invalid", ids |-> <<StoredImageIds[3]>>]],
     [file_name |-> "a.pdf", page |-> 1, image_ids |-> [kind |-> "null", ids |-> <<>>]],
     [file_name |-> "n.txt"]}

\* collection.get(include=["metadatas"])
StoredCollections == UNION {[1..n -> StoredMetadatas] : n \in 0..MaxStoredChunks}

\* the cache directory the session starts with
StoredFiles == [ChatImageIds -> {NoFile} \cup {PngEncode(img) : img \in Images}]

\* lines 102-105: the ids the for loop of line 108 runs over; raised: the
\* exception of json.loads or of the for statement, both caught in line 123
ImageIdsOfMetadata(metadata) ==
    CASE metadata.image_ids.kind = "json" -> [raised |-> FALSE, ids |-> metadata.image_ids.ids]
      [] metadata.image_ids.kind = "list" -> [raised |-> FALSE, ids |-> metadata.image_ids.ids]
      [] OTHER -> [raised |-> TRUE, ids |-> <<>>]

\* the test for an entry of the same id is missing
RegisterCachedAgain(st, metadata, id) ==
    IF st.files[id] # NoFile
    THEN [st EXCEPT !.registry = DictSet(@, [id |-> id, path |-> id,
                                              metadata |-> [file_name |-> metadata.file_name,
                                                            page |-> metadata.page,
                                                            type |-> "cached"],
                                              size |-> st.files[id].size]),
                    !.mem = @ + st.files[id].size]
    ELSE st

\* lines 109-121: one image id of a chunk
RegisterCached(st, metadata, id) ==
    IF st.files[id] # NoFile /\ id \notin Keys(st.registry)
    THEN [st EXCEPT !.registry = DictSet(@, [id |-> id, path |-> id,
                                              metadata |-> [file_name |-> metadata.file_name,
                                                            page |-> metadata.page,
                                                            type |-> "cached"],
                                              size |-> st.files[id].size]),
                    !.mem = @ + st.files[id].size]
    ELSE st

\* line 108: for image_id in image_ids
RECURSIVE RegisterEach(_, _, _)
RegisterEach(st, metadata, ids) ==
    IF ids = <<>> THEN st
    ELSE RegisterEach(RegisterCached(st, metadata, Head(ids)), metadata, Tail(ids))

\* lines 99-124: for metadata in results.get("metadatas", [])
RECURSIVE RestoreImageCache(_, _)
RestoreImageCache(st, metadatas) ==
    IF metadatas = <<>> THEN st
    ELSE LET metadata == Head(metadatas)
             st1 == IF "image_ids" \notin DOMAIN metadata THEN st
                    ELSE RegisterEach(st, metadata, ImageIdsOfMetadata(metadata).ids)
         IN  RestoreImageCache(st1, Tail(metadatas))

RestoreInit ==
    /\ registry = <<>>
    /\ files \in StoredFiles
    /\ current_memory = 0
    /\ last = NoCall
    /\ all_files = {}
    /\ max_workers = 1
    /\ mpc = "none"
    /\ workers = [f \in PdfFiles |-> IdleWorker]
    /\ results = <<>>
    /\ all_documents = <<>>
    /\ indexed \in StoredCollections
    /\ NoExtraction
    /\ NoSession
    /\ NoRerun
    /\ NoTextFile

\* the restore pass of the first script run of the session
Restore ==
    /\ last = NoCall
    /\ SetCache(RestoreImageCache(CacheState, indexed))
    /\ last' = Call("restore", <<>>, "done", None)
    /\ UNCHANGED <<ingestVars, extractVars, queryVars, rerunVars, textVars>>

RestoreNext == Restore

SpecRestore == RestoreInit /\ [][RestoreNext]_vars

\* ------------------------------------------------------ repeated ingestion
\* load_and_index_documents is run twice in one session on the same PDFs with
\* the same extraction method: the ImageCache of the session is kept between
\* the runs. add_image is taken as one step, no save, stat or unlink fails,
\* and every page has text.

\* the values of extraction_method the sidebar offers
ExtractionMethods == {"high_quality", "medium_quality", "embedded", "combined"}

\* extract_images_embedded_positioned(pdf_path): a.pdf embeds the stored
\* images, b.pdf embeds none
EmbeddedImages(f) ==
    IF f = "a.pdf"
    THEN [i \in 1..Len(StoredImageIds) |->
             [page |-> StoredImageIds[i][2], type |-> "embedded", file_name |-> f,
              index |-> StoredImageIds[i][4], rect_index |-> StoredImageIds[i][5]]]
    ELSE <<>>

\* extract_images_from_pdf(pdf_path, method, dpi)
ExtractImagesFromPdf(f, method) ==
    IF method = "embedded" THEN EmbeddedImages(f)
    ELSE IF method = "combined" THEN FullPageImages(f) \o EmbeddedImages(f)
    ELSE FullPageImages(f)

\* lines 85-89: the id process_single_pdf derives for img_data
ImageIdOf(img_data) ==
    ImageId(img_data.file_name, img_data.page, img_data.type, img_data.index,
            img_data.rect_index)

\* img_data["image"]: the picture the PDF holds for the id
ImageOf(img_data) == rerun.picture[ImageIdOf(img_data)]

\* every id an extraction method can derive for the PDFs
RerunIds == ImageIdsOf(PdfFiles) \cup ChatImageIds

\* the ids the method derives for the PDFs fs
DerivedIds(fs, method) ==
    UNION {{ImageIdOf(ExtractImagesFromPdf(f, method)[i]) :
               i \in 1..Len(ExtractImagesFromPdf(f, method))} : f \in fs}

\* what is repeated: the method, the PDFs and the pictures they hold (the
\* picture of an id the method does not derive plays no part)
RerunChoices ==
    {r \in [method : ExtractionMethods, pdf_files : (SUBSET PdfFiles) \ {{}},
            picture : [RerunIds -> Images], runs : {<<>>}] :
        \A id \in RerunIds \ DerivedIds(r.pdf_files, r.method) : r.picture[id] = 1}

RerunInit ==
    /\ registry = <<>>
    /\ files = [id \in RerunIds |-> NoFile]
    /\ current_memory = 0
    /\ last = NoCall
    /\ NoIngestion
    /\ NoExtraction
    /\ NoSession
    /\ rerun \in RerunChoices
    /\ NoTextFile

\* process_single_pdf(f, ...), lines 64-77: the texts and the images of the file
RerunExtract(f) ==
    /\ f \in rerun.pdf_files
    /\ Len(rerun.runs) < 2
    /\ workers[f].pc = "idle"
    /\ LET w == [workers[f] EXCEPT !.page_texts = SortedPages(1..NumPagesOf(f)),
                                   !.images = ExtractImagesFromPdf(f, rerun.method)]
       IN  workers' = [workers EXCEPT ![f] =
                          IF w.images = <<>> THEN Succeeded(w, f)
                          ELSE [w EXCEPT !.pc = "add"]]
    /\ UNCHANGED <<cacheVars, last, extractVars, queryVars, rerunVars, textVars, all_files, max_workers,
                   mpc, results, all_documents, indexed>>

\* lines 81-102: the next image of the file is cached and its id remembered
RerunAddImage(f) ==
    LET w == workers[f]
        img_data == Head(w.images)
        image_id == ImageIdOf(img_data)
    IN  /\ w.pc = "add"
        /\ SetCache(AddImageOk(CacheState, image_id, ImageOf(img_data),
                               ImageMetadata(image_id), {}))
        /\ workers' = [workers EXCEPT ![f] = AfterAdd([w EXCEPT !.id = image_id], f)]
        /\ last' = Call("add_image", image_id,
                        IF image_id \in Keys(registry) THEN "registered" ELSE "new", None)
        /\ UNCHANGED <<extractVars, queryVars, rerunVars, textVars, all_files, max_workers, mpc, results,
                       all_documents, indexed>>

\* every process_single_pdf of the run has returned: the run is over
RerunFinish ==
    /\ Len(rerun.runs) < 2
    /\ \A f \in rerun.pdf_files : workers[f].pc = "returned"
    /\ rerun' = [rerun EXCEPT !.runs =
                    Append(@, [image_ids |-> [f \in rerun.pdf_files |-> workers[f].image_ids],
                               registry |-> registry])]
    /\ workers' = [f \in PdfFiles |-> IdleWorker]
    /\ UNCHANGED <<cacheVars, last, extractVars, queryVars, textVars, all_files, max_workers, mpc,
                   results, all_documents, indexed>>

RerunNext ==
    \/ \E f \in PdfFiles : RerunExtract(f)
    \/ \E f \in PdfFiles : RerunAddImage(f)
    \/ RerunFinish

SpecRerun == RerunInit /\ [][RerunNext]_vars

\* ------------------------------------------------- claims about the cache

\* the ledger agrees with the disk: current_memory is the sum of the sizes of
\* the registered files, and every registered file exists
LedgerMatchesDisk ==
    /\ current_memory = SumFileSizes(registry, files)
    /\ \A id \in Keys(registry) : files[id] # NoFile

\* C1: every add_image (with the eviction it triggers) and every clear in
\* which no unlink fails takes a cache whose ledger equals the sum of the
\* sizes of the registered files, all of them on disk, to such a cache again.
C1_LedgerInvariant ==
    [][((AddImage \/ (Clear /\ last'.case = "clean")) /\ LedgerMatchesDisk)
         => LedgerMatchesDisk']_vars

\* C2: add_image of the image an id is already registered with leaves
\* current_memory and the number of registry entries as they were.
C2_ReputIdempotent ==
    [][\A id \in DOMAIN files, img \in Images :
         (/\ AddImageReturns(id, img)
          /\ id \in Keys(registry)
          /\ files[id] = PngEncode(img)
          /\ Entry(registry, id).size = PngSize(img))
         => (current_memory' = current_memory /\ Len(registry') = Len(registry))]_vars

\* C3: whenever add_image returns, current_memory is at most max_memory_bytes.
C3_UnderLimitAfterAdd ==
    [][AddImage => current_memory' <= MaxMemoryBytes]_vars

\* C6: after add_image(id, img, meta) returned, get_image(id) returns img and
\* meta (the file opens without error).
C6_GetAfterAdd ==
    [][\A id \in DOMAIN files, img \in Images :
         AddImageReturns(id, img)
         => GetImage(CacheState, id, FALSE)'[1]
              = [image |-> img, metadata |-> ImageMetadata(id)]]_vars

\* C7: get_image returns None for an id that is not registered and leaves the
\* registry as it is; it returns None for a registered id whose file is not
\* on disk and removes that entry, and only that entry, from the registry.
C7_GetImageNotFound ==
    [][\A id \in DOMAIN files :
         GetImageCall(id) =>
           /\ id \notin Keys(registry)
                => (last'.result = None /\ registry' = registry)
           /\ (id \in Keys(registry) /\ files[id] = NoFile)
                => /\ last'.result = None
                   /\ id \notin Keys(registry')
                   /\ Keys(registry') = Keys(registry) \ {id}]_vars

\* get_image just found the file of a registered id missing, dropped the
\* entry and kept another one
C7_Witness ==
    /\ last.op = "get_image"
    /\ last.case = "missing"
    /\ last.result = None
    /\ last.id \notin Keys(registry)
    /\ registry # <<>>

\* C8: after clear() the registry is empty, no file of an entry registered
\* before the call is on disk and current_memory is zero, also when an
\* unlink failed.
C8_ClearEmptiesCache ==
    [][Clear => /\ registry' = <<>>
                /\ \A id \in Keys(registry) : files'[id] = NoFile
                /\ current_memory' = 0]_vars

\* --------------------------------------------- claims about the ingestion

AllWorkersReturned == Finished = PdfFiles

\* C4: once every concurrent process_single_pdf has returned, current_memory
\* is the sum of the sizes of the entries in the registry (no increment lost,
\* no size subtracted twice).
C4_LedgerAfterWorkers ==
    AllWorkersReturned => current_memory = SumSizes(registry)

\* C5: when the chunks are handed to the vector store, every chunk has
\* num_images = len(image_ids) and every id in image_ids is registered.
C5_NoDanglingAtIndexing ==
    mpc = "index" =>
        \A i \in 1..Len(all_documents) :
            /\ all_documents[i].num_images = Len(all_documents[i].image_ids)
            /\ \A k \in 1..Len(all_documents[i].image_ids) :
                  all_documents[i].image_ids[k] \in Keys(registry)

RecordsOf(f) == {i \in 1..Len(results) : results[i].file_name = f}
ChunksOf(docs, f) == SelectSeq(docs, LAMBDA d : d.file_name = f)
PastThePool == mpc \in {"text", "index", "done", "no_documents", "index_failed"}

\* C9: no file ever has two result records; once the pool is drained every
\* PDF has exactly one record, with the outcome its own process_single_pdf
\* returned; all_documents holds, for a successful file, exactly its chunks
\* (one per page with text) and for a failed file none; and what is handed to
\* the vector store is all_documents.
C9_OneRecordPerPdf ==
    /\ \A f \in PdfFiles : Cardinality(RecordsOf(f)) <= 1
    /\ PastThePool =>
         \A f \in PdfFiles :
            /\ Cardinality(RecordsOf(f)) = 1
            /\ \A i \in RecordsOf(f) : results[i].success = workers[f].ret.success
            /\ ChunksOf(all_documents, f) = workers[f].ret.documents
            /\ workers[f].ret.success
                 => /\ Len(ChunksOf(all_documents, f)) = Len(workers[f].page_texts)
                    /\ \A k \in 1..Len(workers[f].page_texts) :
                          \E i \in 1..Len(all_documents) :
                             /\ all_documents[i].file_name = f
                             /\ all_documents[i].page = workers[f].page_texts[k]
            /\ ~workers[f].ret.success => ChunksOf(all_documents, f) = <<>>
    /\ mpc = "done" => indexed = all_documents

\* the index was built after one PDF failed and another, with two pages of
\* text, succeeded, the failed one having been reported first
C9_Witness ==
    /\ mpc = "done"
    /\ Len(results) >= 2
    /\ ~results[1].success
    /\ \E f \in PdfFiles :
         /\ workers[f].ret.success
         /\ Len(ChunksOf(indexed, f)) = 2

\* C10: while the calling thread is processing text files or building the
\* index (or has returned), no process_single_pdf is queued or running.
C10_JoinBarrier ==
    PastThePool => (Running = {} /\ AllWorkersReturned)

\* a text file has been processed and the index is about to be built
C10_Witness ==
    /\ mpc = "index"
    /\ \E t \in TextFiles : \E i \in 1..Len(results) : results[i].file_name = t
    /\ \E f \in PdfFiles : workers[f].image_ids # <<>>

\* ---------------------------------------- claims about the text extraction

\* extract_text_from_pdf was called on a PDF that exists and is not empty
ExtractedFromFile == extracted # NotExtracted /\ pdf.stat = "ok"

\* C11: extract_text_from_pdf on an encrypted PDF raises, with an error other
\* than the generic "no text could be extracted" one, and neither reader was
\* started on the file before it did.
C11_EncryptedFailsFast ==
    (ExtractedFromFile /\ pdf.encrypted)
        => /\ extracted.raised \notin {"none", "no_text"}
           /\ extracted.ran = <<>>

\* a sequence of numbers is strictly increasing
Ascending(seq) == \A i \in 1..(Len(seq) - 1) : seq[i] < seq[i + 1]

\* C12: the page map extract_text_from_pdf returns lists its pages in strictly
\* increasing page order and holds no empty or white-space-only text, whatever
\* the two readers do page by page and as a whole; the Documents of the file
\* are built in ascending page order.
C12_PageMapAscending ==
    extracted.raised = "none"
        => /\ Ascending(KeyList(extracted.page_texts))
           /\ \A i \in 1..Len(extracted.page_texts) :
                 HasText(extracted.page_texts[i].text)
           /\ Ascending([i \in 1..Len(documents) |-> documents[i].page])

\* C13: pypdf is started only if pdfplumber stored no page with text, and the
\* pages of a returned page map all come from the same reader.
C13_WholeDocumentFallback ==
    ExtractedFromFile
        => /\ (\E i \in 1..Len(extracted.ran) : extracted.ran[i] = "pypdf")
                 => PlumberPages(pdf) = <<>>
           /\ \A i, j \in 1..Len(extracted.page_texts) :
                 extracted.page_texts[i].by = extracted.page_texts[j].by

\* C28: every chunk of a PDF has 1 <= page <= total_pages in its metadata,
\* also when some pages of the document yield no text.
C28_PageWithinTotal ==
    \A i \in 1..Len(documents) :
        /\ 1 <= documents[i].page
        /\ documents[i].page <= documents[i].total_pages

\* ------------------------------------------------ claims about the question

\* a request was sent to the model for the last question
RequestSent == exchange.asked /\ exchange.request # NoRequest

\* the [画像N] markers create_multimodal_prompt placed in the prompt, in order
PromptMarkers == SelectSeq(exchange.prompt_text, LAMBDA part : part.kind = "marker")

\* the image parts of the current query in the request
SentImages == exchange.request[Len(exchange.request)].content.image_url

\* C14: the prompt of a request holds at most max_images image markers, and
\* every marker [画像N] in it belongs to an image that is part of the request
\* (the N-th image sent).
C14_CapBeforeMarkers ==
    RequestSent
        => /\ Len(PromptMarkers) <= settings.max_images
           /\ \A i \in 1..Len(PromptMarkers) :
                 PromptMarkers[i].number <= Len(SentImages)

\* the session's messages before the last question was submitted
MessagesBefore == SubSeq(messages, 1, Len(messages) - 2)

\* the messages of the request that precede the current query content
HistorySent == SubSeq(exchange.request, 1, Len(exchange.request) - 1)

\* the last n complete user/assistant turns of msgs, as role and content
RecentTurns(msgs, n) ==
    LET k == IF n <= Len(msgs) \div 2 THEN n ELSE Len(msgs) \div 2
    IN  [i \in 1..(2 * k) |->
            [role |-> msgs[Len(msgs) - 2 * k + i].role,
             content |-> msgs[Len(msgs) - 2 * k + i].content]]

\* C15: with the chat history switched on, the messages sent before the
\* current query content are the last chat_history_length complete turns of
\* the session before the question (fewer if the session is shorter),
\* verbatim and in order: at most 2 * chat_history_length messages, the first
\* one a user message, the current question not among them.
C15_RecentTurnsOnly ==
    (RequestSent /\ settings.use_chat_history)
        => /\ Len(HistorySent) <= 2 * settings.chat_history_length
           /\ HistorySent # <<>> => HistorySent[1].role = "user"
           /\ \A i \in 1..Len(HistorySent) : HistorySent[i].content # exchange.query
           /\ HistorySent = RecentTurns(MessagesBefore, settings.chat_history_length)

\* render_response_with_images ran on the answer to the last question
AnswerRendered ==
    /\ exchange.asked
    /\ ~exchange.raised
    /\ exchange.result.success
    /\ exchange.result.image_documents # <<>>

\* the display numbers assigned to the images of the context
AssignedNumbers ==
    {exchange.result.image_documents[i].number :
        i \in 1..Len(exchange.result.image_documents)}

\* C16: rendering shows something for every marker of the answer, in order,
\* and for a marker [画像N] whose N is assigned to no image of the context
\* what it shows is an unresolved-reference placeholder.
C16_UnassignedMarkerVisible ==
    AnswerRendered
        => LET marks == SelectSeq(exchange.result.answer, IsMarker)
               shown == SelectSeq(exchange.rendered, LAMBDA seg : seg.kind # "text")
           IN  /\ Len(shown) = Len(marks)
               /\ \A i \in 1..Len(marks) :
                     marks[i].marker \notin AssignedNumbers
                         => shown[i].kind = "unresolved"

\* the image ids of ranked chunks, chunk by chunk, each chunk's in its order
RECURSIVE IdsInOrder(_)
IdsInOrder(nodes) ==
    IF nodes = <<>> THEN <<>> ELSE Head(nodes).image_ids \o IdsInOrder(Tail(nodes))

\* those of them that resolved in the cache when the question was asked
ResolvedIds ==
    SelectSeq(IdsInOrder(exchange.nodes), LAMBDA id : id \in exchange.resolvable)

\* create_multimodal_prompt ran for the last question
PromptBuilt == exchange.asked /\ exchange.fail # "retrieval"

\* C17: the images that resolve for a question get the display numbers
\* 1, 2, 3, ... in chunk order and, within a chunk, in the order of its ids:
\* the i-th marker of the prompt and the i-th image document carry number i
\* and belong to the i-th resolved id, across all chunks.
C17_SharedCounter ==
    PromptBuilt
        => /\ Len(PromptMarkers) = Len(ResolvedIds)
           /\ \A i \in 1..Len(PromptMarkers) :
                 /\ PromptMarkers[i].number = i
                 /\ PromptMarkers[i].file_name = ResolvedIds[i][1]
                 /\ PromptMarkers[i].page = ResolvedIds[i][2]
           /\ exchange.result.success
                => /\ Len(exchange.result.image_documents) = Len(ResolvedIds)
                   /\ \A i \in 1..Len(ResolvedIds) :
                         /\ exchange.result.image_documents[i].number = i
                         /\ exchange.result.image_documents[i].image
                              = StoredImage(ResolvedIds[i])

\* page 2 was ranked before page 1 and all three images resolved: the image
\* of page 2 is number 1, those of page 1 are numbers 2 and 3
C17_Witness ==
    /\ PromptBuilt
    /\ exchange.result.success
    /\ Len(exchange.nodes) = 2
    /\ exchange.nodes[1].page = 2
    /\ Len(exchange.result.image_documents) = 3
    /\ exchange.result.image_documents[3].number = 3

\* the ranked chunks of the last question hold an id that did not resolve
SomeIdUnresolved ==
    /\ PromptBuilt
    /\ \E k \in 1..Len(IdsInOrder(exchange.nodes)) :
          IdsInOrder(exchange.nodes)[k] \notin exchange.resolvable

\* C18: when an image id of a ranked chunk does not resolve, the question
\* does not fail because of it; the id gets no marker and takes no display
\* number (the markers are numbered 1..n without a gap, one per resolved id),
\* and every id of the same and of later chunks that does resolve still has
\* its marker and its image document.
C18_UnresolvedIdSkipped ==
    SomeIdUnresolved
        => /\ exchange.fail = "none" => (~exchange.raised /\ exchange.result.success)
           /\ Len(PromptMarkers) = Len(ResolvedIds)
           /\ {PromptMarkers[i].number : i \in 1..Len(PromptMarkers)}
                = 1..Len(ResolvedIds)
           /\ exchange.result.success
                => \A k \in 1..Len(ResolvedIds) :
                      \E i \in 1..Len(exchange.result.image_documents) :
                         exchange.result.image_documents[i].image
                           = StoredImage(ResolvedIds[k])

\* the first id of page 1 did not resolve; the second id of the same chunk
\* and the id of the next chunk were loaded as images 1 and 2
C18_Witness ==
    /\ SomeIdUnresolved
    /\ exchange.result.success
    /\ Len(exchange.nodes) = 2
    /\ exchange.nodes[1].page = 1
    /\ exchange.nodes[1].image_ids[1] \notin exchange.resolvable
    /\ Len(exchange.result.image_documents) = 2
    /\ exchange.result.image_documents[1].image = StoredImage(exchange.nodes[1].image_ids[2])
    /\ exchange.result.image_documents[2].image = StoredImage(exchange.nodes[2].image_ids[1])

\* C19: query_with_multimodal never raises. When retrieval, the encoding of
\* an image or the model call raises, it returns success = False with the
\* error and a non-empty answer text for the user; when nothing raises it
\* returns success = True with the answer the model gave.
C19_NeverRaises ==
    exchange.asked
        => /\ ~exchange.raised
           /\ exchange.fail # "none"
                => /\ ~exchange.result.success
                   /\ "error" \in DOMAIN exchange.result
                   /\ exchange.result.error = exchange.fail
                   /\ exchange.result.answer # <<>>
           /\ exchange.fail = "none"
                => /\ exchange.result.success
                   /\ exchange.result.answer = exchange.model_answer

\* the request with two images was sent and the model call raised: the
\* failure came back as a result and was stored as the assistant's message
C19_Witness ==
    /\ exchange.asked
    /\ exchange.fail = "api"
    /\ exchange.request # NoRequest
    /\ Len(exchange.request[Len(exchange.request)].content.image_url) = 2
    /\ ~exchange.raised
    /\ ~exchange.result.success
    /\ messages[Len(messages)].role = "assistant"
    /\ ~messages[Len(messages)].is_multimodal

\* C20: the request carries min(number of resolved images, max_images) image
\* parts, and they are the images with the display numbers 1, 2, ... in that
\* order; when no image resolved the request has no image part and nothing
\* displayed for the answer is an image.
C20_ImagesSent ==
    RequestSent
        => /\ Len(SentImages) = IF Len(ResolvedIds) <= settings.max_images
                                THEN Len(ResolvedIds) ELSE settings.max_images
           /\ \A i \in 1..Len(SentImages) :
                 SentImages[i].url = ImageToBase64(StoredImage(ResolvedIds[i]))
           /\ ResolvedIds = <<>>
                => /\ SentImages = <<>>
                   /\ \A i \in 1..Len(exchange.rendered) :
                         exchange.rendered[i].kind # "image"

\* three images resolved with max_images = 2: images 1 and 2 were sent
C20_Witness ==
    /\ RequestSent
    /\ Len(ResolvedIds) = 3
    /\ settings.max_images = 2
    /\ Len(SentImages) = 2
    /\ exchange.result.success

\* no image resolved for two ranked chunks: the request was text only and the
\* answer, which named an image, was displayed as plain text
C20_WitnessTextOnly ==
    /\ RequestSent
    /\ Len(exchange.nodes) = 2
    /\ ResolvedIds = <<>>
    /\ SentImages = <<>>
    /\ exchange.result.success
    /\ \E i \in 1..Len(exchange.result.answer) : IsMarker(exchange.result.answer[i])

\* ------------------------------------- claims about the ingestion, continued

\* load_and_index_documents has handed all_documents to the vector store
StoreCalled == mpc \in {"index", "done", "index_failed"}

\* C21: on a directory without files load_and_index_documents returns the
\* "no files" error before anything else happened: no worker ran, no chunk
\* exists, the cache is untouched and the vector store was not called. When
\* the files of the directory produced no chunk it returns the "no documents"
\* error, and the vector store is only ever called with at least one chunk.
C21_NothingToIngest ==
    /\ all_files = {} => mpc \in {"list", "no_files"}
    /\ mpc = "no_files"
         => /\ all_documents = <<>>
            /\ results = <<>>
            /\ \A f \in PdfFiles : workers[f] = IdleWorker
            /\ registry = <<>>
            /\ \A id \in DOMAIN files : files[id] = NoFile
            /\ current_memory = 0
            /\ indexed = <<>>
    /\ (all_files # {} /\ all_documents = <<>>)
         => /\ ~StoreCalled
            /\ indexed = <<>>
    /\ mpc = "no_documents" => (all_documents = <<>> /\ indexed = <<>>)

\* every file of the directory was processed and failed, images had been
\* cached on the way, and the "no documents" error was returned
C21_Witness ==
    /\ mpc = "no_documents"
    /\ Len(results) = Cardinality(PdfFiles) + Cardinality(TextFiles)
    /\ registry # <<>>

\* the empty directory was listed and the "no files" error returned
C21_WitnessNoFiles == mpc = "no_files" /\ all_files = {}

\* --------------------------------------- claims about repeated ingestion

\* both runs are over
RanTwice == Len(rerun.runs) = 2

\* C22: a second ingestion of the same PDFs with the same extraction method
\* derives, file by file, the image ids of the first one, and afterwards the
\* registry holds no id twice and no more entries than after the first run.
C22_RerunSameIds ==
    RanTwice
        => /\ rerun.runs[2].image_ids = rerun.runs[1].image_ids
           /\ Len(rerun.runs[2].registry) = Cardinality(Keys(rerun.runs[2].registry))
           /\ Len(rerun.runs[2].registry) <= Len(rerun.runs[1].registry)

\* ------------------------------------- claims about the question, continued

\* the session is a sequence of turns: a user message, then an assistant one
TurnsAlternate ==
    /\ Len(messages) % 2 = 0
    /\ \A i \in 1..Len(messages) :
          messages[i].role = IF i % 2 = 1 THEN "user" ELSE "assistant"

\* the last two messages are the last question and what became of it: the
\* answer of the model, or the error text of the step that failed
LastTurnStored ==
    exchange.asked
        => /\ Len(messages) >= 2
           /\ messages[Len(messages) - 1] = [role |-> "user", content |-> exchange.query]
           /\ messages[Len(messages)].role = "assistant"
           /\ exchange.fail = "none"
                => messages[Len(messages)].content = exchange.model_answer
           /\ exchange.fail # "none"
                => \E k \in 1..Len(messages[Len(messages)].content) :
                      messages[Len(messages)].content[k] = [text |-> exchange.fail]

\* C23: every question, answered or failed (every step of the session is one
\* question), appends one user message and then one assistant message to the
\* messages already there, so the session always
\* alternates user and assistant, and a failed question leaves an assistant
\* message that carries the error text.
C23_OneTurnPerQuestion ==
    /\ [](TurnsAlternate /\ LastTurnStored)
    /\ [][/\ Len(messages') = Len(messages) + 2
          /\ SubSeq(messages', 1, Len(messages)) = messages]_vars

\* two questions were asked: the first failed in retrieval, the second was
\* answered
C23_Witness ==
    /\ Len(messages) = 4
    /\ ~messages[2].is_multimodal
    /\ \E k \in 1..Len(messages[2].content) : messages[2].content[k] = [text |-> "retrieval"]
    /\ messages[4].is_multimodal
    /\ exchange.fail = "none"

\* ------------------------------------------------- claims about rendering

\* render_response_with_images ran on an answer that holds a marker whose
\* image is in the context
RenderedWithImage ==
    /\ exchange.asked
    /\ "rendered" \in DOMAIN exchange
    /\ "answer" \in DOMAIN exchange
    /\ \E i \in 1..Len(exchange.answer) :
          /\ IsMarker(exchange.answer[i])
          /\ exchange.answer[i].marker <= Len(exchange.image_documents)

\* what the claim expects on the screen for an answer, part by part: a text
\* part as it is (a blank one only if blanks counts), the image of a marker
\* whose number is in the context
RECURSIVE Expected(_, _, _)
Expected(answer, image_documents, blanks) ==
    IF answer = <<>> THEN <<>>
    ELSE LET part == Head(answer)
             seg == IF IsMarker(part)
                    THEN IF part.marker <= Len(image_documents)
                         THEN <<[kind |-> "image", number |-> part.marker,
                                 image |-> image_documents[part.marker].image]>>
                         ELSE <<>>
                    ELSE IF part.text = " " /\ ~blanks THEN <<>>
                    ELSE <<[kind |-> "text", text |-> part.text]>>
         IN  seg \o Expected(Tail(answer), image_documents, blanks)

\* C24: for an answer with a marker [画像N] whose image N is in the context,
\* rendering emits exactly one image segment for the marker, where the marker
\* stands, and every text part of the answer verbatim and in order.
C24_MarkerRoundTrip ==
    RenderedWithImage
        => exchange.rendered = Expected(exchange.answer, exchange.image_documents, TRUE)

\* C24 as amended: as above, for the text parts that are not blank; a text
\* part of white space only is not emitted.
C24_MarkerRoundTripNonBlank ==
    RenderedWithImage
        => exchange.rendered = Expected(exchange.answer, exchange.image_documents, FALSE)

\* text, [画像2], text was rendered with two images in the context: the
\* image of number 2 stands between the two texts
C24_Witness ==
    /\ RenderedWithImage
    /\ exchange.answer = <<PlainText, [marker |-> 2], PlainText>>
    /\ Len(exchange.image_documents) = 2
    /\ Len(exchange.rendered) = 3
    /\ exchange.rendered[2].kind = "image"
    /\ exchange.rendered[2].image = exchange.image_documents[2].image

\* the ledger agrees with the registry: current_memory is the sum of the
\* sizes recorded in the registered entries
LedgerMatchesRegistry == current_memory = SumSizes(registry)

\* C27: get_image preserves current_memory = sum of the sizes of the
\* registered entries in every case, the call that finds the file missing
\* and deregisters the stale entry included.
C27_GetKeepsLedger ==
    [][(GetImageAny /\ last'.op = "get_image" /\ LedgerMatchesRegistry)
         => LedgerMatchesRegistry']_vars

\* ------------------------------------------ claims about a failing add_image

\* add_image raised in the process_single_pdf of f: the function returned
\* with images of the file still to be cached
AddImageRaised(f) ==
    /\ workers[f].pc \in {"returned", "collected"}
    /\ workers[f].images # <<>>

\* C29: when add_image raises (the image cannot be written or its size cannot
\* be read), the registry and current_memory are as they were before the
\* call; the file being ingested is reported as a failed file, with no chunk,
\* and the entries registered earlier are still registered.
C29_FailedAddLeavesCache ==
    /\ [][\A f \in PdfFiles :
            (workers[f].pc = "add" /\ AddImageRaised(f)')
               => /\ registry' = registry
                  /\ current_memory' = current_memory
                  /\ ~workers'[f].ret.success]_vars
    /\ [](\A f \in PdfFiles :
            (AddImageRaised(f) /\ workers[f].pc = "collected")
               => /\ \A i \in RecordsOf(f) : ~results[i].success
                  /\ RecordsOf(f) # {}
                  /\ ChunksOf(all_documents, f) = <<>>)

\* the second image of a file could not be cached after the first one was
\* registered; the file was reported as failed and the first entry is still
\* in the registry
C29_Witness ==
    \E f \in PdfFiles :
        /\ AddImageRaised(f)
        /\ workers[f].pc = "collected"
        /\ Len(workers[f].image_ids) = 1
        /\ workers[f].image_ids[1] \in Keys(registry)
        /\ \E i \in RecordsOf(f) : ~results[i].success

\* ------------------------------------- claims about the image ids of chunks

\* the chunks collected so far that list the image id
Referrers(id) ==
    {i \in 1..Len(all_documents) :
        \E k \in 1..Len(all_documents[i].image_ids) : all_documents[i].image_ids[k] = id}

\* the pages of f that produced a text chunk
PagesWithText(f) == {workers[f].page_texts[k] : k \in 1..Len(workers[f].page_texts)}

\* C30: within one ingestion run every cached image id is listed by at most
\* one chunk, once, and that chunk has the file name and the page number of
\* the image; an image on a page that produced no text chunk is cached but
\* listed by no chunk.
C30_ImageInOwnPageChunk ==
    \A f \in PdfFiles : \A n \in 1..Len(workers[f].image_ids) :
        LET id == workers[f].image_ids[n]
        IN  /\ Cardinality(Referrers(id)) <= 1
            /\ \A i \in Referrers(id) :
                  /\ all_documents[i].file_name = f
                  /\ all_documents[i].page = id[2]
                  /\ \A k1, k2 \in 1..Len(all_documents[i].image_ids) :
                        (all_documents[i].image_ids[k1] = id
                           /\ all_documents[i].image_ids[k2] = id) => k1 = k2
            /\ id[2] \notin PagesWithText(f) => Referrers(id) = {}

\* a file with text on one page only and an image cached for each of its two
\* pages was collected: the image of the page with text is listed by the
\* chunk, the other image by none
C30_Witness ==
    \E f \in PdfFiles :
        /\ workers[f].pc = "collected"
        /\ workers[f].ret.success
        /\ Len(workers[f].image_ids) = 2
        /\ Len(workers[f].page_texts) = 1
        /\ \E n \in 1..2 : Cardinality(Referrers(workers[f].image_ids[n])) = 1
        /\ \E n \in 1..2 : Referrers(workers[f].image_ids[n]) = {}

\* ------------------------------------------------ claims about text files

\* process_text_file has returned
TextProcessed == text_file.result # NotProcessed

\* the encodings, by position, that read the file without an error
Decoding(content) ==
    {i \in DOMAIN Encodings :
        \/ content.kind \in {"empty", "blank"}
        \/ content.kind = "bytes" /\ content.decodable[i]}

\* C26: process_text_file tries utf-8, shift-jis, cp932, euc-jp in that order
\* and succeeds with the text of the first encoding that decodes the file; it
\* reports a failure only when no encoding decodes it (a file that decodes to
\* the empty string is a success).
C26_FirstDecodingWins ==
    TextProcessed =>
        LET ds == Decoding(text_file.content)
            r == text_file.result
        IN  /\ ds = {} => ~r.success
            /\ ds # {} =>
                 LET first == CHOOSE i \in ds : \A j \in ds : i <= j
                 IN  /\ r.success
                     /\ Len(r.documents) = 1
                     /\ r.documents[1].text = ReadAs(text_file.content, first).text

\* ------------------------------------------ claims about the start-up pass

\* the restore pass has run
Restored == last.op = "restore"

\* the image ids the stored chunks refer to
ReferencedIds ==
    {id \in ChatImageIds :
        \E i \in 1..Len(indexed) :
            /\ "image_ids" \in DOMAIN indexed[i]
            /\ indexed[i].image_ids.kind \in {"json", "list"}
            /\ \E k \in 1..Len(indexed[i].image_ids.ids) : indexed[i].image_ids.ids[k] = id}

\* C25: after the start-up pass over the stored chunk metadata the registry
\* holds exactly the referenced image ids whose cache file is on disk, each
\* once (also when an id occurs in several chunks or was registered earlier in
\* the pass), and current_memory is the sum of the sizes of the entries.
C25_RestoreExact ==
    Restored =>
        /\ Keys(registry) = {id \in ReferencedIds : files[id] # NoFile}
        /\ \A i, j \in 1..Len(registry) : registry[i].id = registry[j].id => i = j
        /\ current_memory = SumSizes(registry)
        /\ current_memory = SumFileSizes(registry, files)

\* the pass ran on a collection in which an id occurs in two chunks and
\* another referenced id has no file: the first is registered, the other not
C25_Witness ==
    /\ Restored
    /\ \E i, j \in 1..Len(indexed) :
          /\ i # j
          /\ "image_ids" \in DOMAIN indexed[i] /\ indexed[i].image_ids.kind = "json"
          /\ "image_ids" \in DOMAIN indexed[j] /\ indexed[j].image_ids.kind = "list"
    /\ StoredImageIds[2] \in Keys(registry)
    /\ StoredImageIds[3] \in ReferencedIds
    /\ StoredImageIds[3] \notin Keys(registry)
    /\ Len(registry) = 2

====
